---- MODULE Spec2Model ----
(***************************************************************************)
(* Model of the two CI quality gates of the repository:                    *)
(*   scripts/check-docs-drift.py      (documentation drift gate)           *)
(*   scripts/check-jmh-regression.py  (benchmark regression gate)          *)
(*                                                                         *)
(* Text is modelled as a sequence of lexemes ("tokens"): every character   *)
(* the regular expressions of the drift gate look at is a token of its     *)
(* own; an identifier no pattern looks into ("MemrisRepository",           *)
(* "IndexType", "docs", ...) is one token.                                 *)
(* Scores are integers and thresholds integer percents: 0.10 is 10, and    *)
(* current < baseline * (1 - allowed) is 100*current < baseline*(100-t).   *)
(***************************************************************************)
EXTENDS Integers, Sequences, FiniteSets, TLC

VARIABLES
  \* ---- drift gate: inputs
  env,        \* environment: DOCS_BASELINE_VERSION, DOCS_STALE_VERSIONS, DOCS_DRIFT_ALLOWLIST
  pom,        \* ROOT/pom.xml
  tree,       \* target files: path -> [readable, lines]
  probe,      \* description of the input the initial state was built from
  \* ---- drift gate: program state
  pc,         \* "import", "main", "scan", "done", "aborted" ("idle": the gate is not run)
  allowGlobs, \* ALLOWLIST_GLOBS
  rules,      \* RULES
  targets,    \* main: targets
  cursor,     \* main: index of the next target of the for loop
  findings,   \* main: findings
  readLog,    \* paths whose text was read (path.read_text was called)
  checked,    \* the number printed by the pass report, -1 before
  exitCode,   \* process exit status, -1 while running
  \* ---- regression gate
  jpc,        \* "args", "baseline", "current", "entries", "evaluate", "done", "aborted" ("idle")
  thresholds, \* args.flat_threshold, args.embedded_threshold (percent)
  baseline,   \* main: baseline, in dict order: sequence of <<benchmark, score>>
  current,    \* load_current: current, a set of <<benchmark, score>> with one score per benchmark
  seen,       \* <<benchmark, kind of score>> of every entry of the array consumed so far
  nEntries,   \* entries of the current-results array consumed so far
  idx,        \* main: index of the next baseline item of the for loop
  failures,   \* main: failures
  jexit       \* process exit status, -1 while running

driftVars == <<env, pom, tree, probe, pc, allowGlobs, rules, targets, cursor,
               findings, readLog, checked, exitCode>>
jmhVars == <<jpc, thresholds, baseline, current, seen, nEntries, idx, failures, jexit>>
vars == <<env, pom, tree, probe, pc, allowGlobs, rules, targets, cursor,
          findings, readLog, checked, exitCode,
          jpc, thresholds, baseline, current, seen, nEntries, idx, failures, jexit>>

(***************************************************************************)
(* Bounds                                                                  *)
(***************************************************************************)
\* total number of lines over all target files of a docs tree
MaxTotalLines == 3
\* version components 0..MaxNum (plus the two-digit probes) in the stale-rule runs
MaxNum == 2
\* length of the line in the stale-literal override runs
MaxLineLen == 5
\* number of benchmarks of the baseline file
MaxBench == 2
\* number of entries of the current-results array
MaxEntries == 2

(***************************************************************************)
(* Characters and tokens                                                   *)
(***************************************************************************)
DigitChar == <<"0", "1", "2", "3", "4", "5", "6", "7", "8", "9">>

Digits == {DigitChar[i] : i \in 1..10}

DigitVal(t) == (CHOOSE i \in 1..10 : DigitChar[i] = t) - 1

\* tokens whose first character is a word character (\w)
WordStartTokens == Digits \cup {"v", "x", "T", "rc", "MemrisRepository", "IndexType"}

\* tokens whose last character is a word character (\w)
WordEndTokens == WordStartTokens \cup {"@Index"}

IsSpace(t) == t = " "

\* str(n) for an int n >= 0
RECURSIVE IntToStr(_)
IntToStr(n) == IF n < 10 THEN <<DigitChar[n + 1]>>
               ELSE IntToStr(n \div 10) \o <<DigitChar[(n % 10) + 1]>>

\* int(s) for a string of digits
RECURSIVE StrToInt(_)
StrToInt(s) == IF Len(s) = 0 THEN 0
               ELSE 10 * StrToInt(SubSeq(s, 1, Len(s) - 1)) + DigitVal(s[Len(s)])

\* str.strip()
RECURSIVE Strip(_)
Strip(s) == IF Len(s) = 0 THEN s
            ELSE IF IsSpace(s[1]) THEN Strip(Tail(s))
            ELSE IF IsSpace(s[Len(s)]) THEN Strip(SubSeq(s, 1, Len(s) - 1))
            ELSE s

\* str.split(","): the pieces between the commas, empty pieces included
RECURSIVE SplitComma(_, _)
SplitComma(s, acc) == IF Len(s) = 0 THEN <<acc>>
                      ELSE IF s[1] = "," THEN <<acc>> \o SplitComma(Tail(s), <<>>)
                      ELSE SplitComma(Tail(s), Append(acc, s[1]))

\* [x.strip() for x in value.split(",") if x.strip()]
RECURSIVE StripNonEmpty(_)
StripNonEmpty(items) == IF Len(items) = 0 THEN <<>>
                        ELSE (IF Len(Strip(items[1])) > 0 THEN <<Strip(items[1])>> ELSE <<>>)
                             \o StripNonEmpty(Tail(items))

EnvList(value) == StripNonEmpty(SplitComma(value, <<>>))

(***************************************************************************)
(* Regular expressions: a pattern is a sequence of atoms, matched with     *)
(* backtracking (the set of positions a prefix of the pattern can end at). *)
(***************************************************************************)
Lit(t) == [t |-> "lit", tok |-> t, alts |-> {}]

RECURSIVE Lits(_)
Lits(s) == IF Len(s) = 0 THEN <<>> ELSE <<Lit(s[1])>> \o Lits(Tail(s))

WordBoundary == [t |-> "b", tok |-> "", alts |-> {}]

DigitsPlus == [t |-> "d+", tok |-> "", alts |-> {}]

SpacesStar == [t |-> "s*", tok |-> "", alts |-> {}]

NotGtPlus == [t |-> "nogt+", tok |-> "", alts |-> {}]

AnyOf(literals) == [t |-> "alt", tok |-> "", alts |-> literals]

\* \b at position p (between line[p] and line[p+1])
IsBoundary(line, p) ==
  LET before == p >= 1 /\ line[p] \in WordEndTokens
      after == p < Len(line) /\ line[p + 1] \in WordStartTokens
  IN before # after

HasAt(line, p, lit) ==
  /\ p + Len(lit) <= Len(line)
  /\ \A k \in 1..Len(lit) : line[p + k] = lit[k]

AtomEnds(atom, line, p) ==
  CASE atom.t = "lit" -> IF p < Len(line) /\ line[p + 1] = atom.tok THEN {p + 1} ELSE {}
    [] atom.t = "b" -> IF IsBoundary(line, p) THEN {p} ELSE {}
    [] atom.t = "d+" -> {q \in (p + 1)..Len(line) : \A k \in (p + 1)..q : line[k] \in Digits}
    [] atom.t = "s*" -> {q \in p..Len(line) : \A k \in (p + 1)..q : IsSpace(line[k])}
    [] atom.t = "nogt+" -> {q \in (p + 1)..Len(line) : \A k \in (p + 1)..q : line[k] # ">"}
    [] atom.t = "alt" -> {p + Len(lit) : lit \in {l \in atom.alts : HasAt(line, p, l)}}

RECURSIVE MatchEnds(_, _, _, _)
MatchEnds(pattern, line, k, from) ==
  IF k > Len(pattern) \/ from = {} THEN from
  ELSE MatchEnds(pattern, line, k + 1, UNION {AtomEnds(pattern[k], line, p) : p \in from})

\* pattern.search(line)
Search(pattern, line) == \E p \in 0..Len(line) : MatchEnds(pattern, line, 1, {p}) # {}

(***************************************************************************)
(* check-docs-drift.py                                                     *)
(***************************************************************************)
ReadmePath == <<"README.md">>

NoVersion == [ok |-> FALSE, norm |-> <<>>, major |-> 0, minor |-> 0, patch |-> 0]

\* end of the longest run of digits of s that starts at i (i - 1 when there is none)
RECURSIVE RunEnd(_, _)
RunEnd(s, i) == IF i <= Len(s) /\ s[i] \in Digits THEN RunEnd(s, i + 1) ELSE i - 1

VersionString(major, minor, patch) ==
  IntToStr(major) \o <<".">> \o IntToStr(minor) \o <<".">> \o IntToStr(patch)

\* SEMVER_RE = ^(\d+)\.(\d+)\.(\d+)(?:[-+].*)?$ on the stripped string
parse_semver(raw_version) ==
  LET s == Strip(raw_version)
      e1 == RunEnd(s, 1)
      e2 == RunEnd(s, e1 + 2)
      e3 == RunEnd(s, e2 + 2)
  IN IF /\ e1 >= 1
        /\ e1 + 1 <= Len(s) /\ s[e1 + 1] = "."
        /\ e2 >= e1 + 2
        /\ e2 + 1 <= Len(s) /\ s[e2 + 1] = "."
        /\ e3 >= e2 + 2
        /\ (e3 = Len(s) \/ s[e3 + 1] \in {"-", "+"})
     THEN LET major == StrToInt(SubSeq(s, 1, e1))
              minor == StrToInt(SubSeq(s, e1 + 2, e2))
              patch == StrToInt(SubSeq(s, e2 + 2, e3))
          IN [ok |-> TRUE, norm |-> VersionString(major, minor, patch),
              major |-> major, minor |-> minor, patch |-> patch]
     ELSE NoVersion

\* the version string or <<>> (None)
baseline_version_from_pom(p) ==
  IF p.state # "version" THEN <<>>
  ELSE LET parsed == parse_semver(p.version)
       IN IF parsed.ok THEN parsed.norm ELSE <<>>

\* [raised: SystemExit, value: the version string or <<>> (None)]
resolve_docs_baseline_version(e, p) ==
  IF Len(e.baselineVersion) > 0
  THEN LET parsed == parse_semver(e.baselineVersion)
       IN IF ~parsed.ok THEN [raised |-> TRUE, value |-> <<>>]
          ELSE [raised |-> FALSE, value |-> parsed.norm]
  ELSE [raised |-> FALSE, value |-> baseline_version_from_pom(p)]

StaleMessage(note) == <<"stale version literal detected (expected docs baseline: ", note>>

\* stale_version_rule with the predecessor computed wrongly: the baseline's own minor line
StalePatternOwnMinor(base, stale_overrides) ==
  IF Len(stale_overrides) > 0
  THEN <<WordBoundary, AnyOf({stale_overrides[i] : i \in 1..Len(stale_overrides)}), WordBoundary>>
  ELSE IF Len(base) > 0
  THEN LET parsed == parse_semver(base)
       IN IF ~parsed.ok THEN <<>>
          ELSE IF parsed.minor > 0
          THEN <<WordBoundary>> \o Lits(IntToStr(parsed.major)) \o <<Lit(".")>>
               \o Lits(IntToStr(parsed.minor)) \o <<Lit("."), DigitsPlus, WordBoundary>>
          ELSE IF parsed.major > 0
          THEN <<WordBoundary>> \o Lits(IntToStr(parsed.major - 1))
               \o <<Lit("."), DigitsPlus, Lit("."), DigitsPlus, WordBoundary>>
          ELSE <<>>
  ELSE <<>>

\* stale_version_rule with the two branches swapped: the baseline wins over the overrides
StalePatternBaselineFirst(base, stale_overrides) ==
  IF Len(base) > 0 /\ parse_semver(base).ok /\ parse_semver(base).minor > 0
  THEN <<WordBoundary>> \o Lits(IntToStr(parse_semver(base).major)) \o <<Lit(".")>>
       \o Lits(IntToStr(parse_semver(base).minor - 1)) \o <<Lit("."), DigitsPlus, WordBoundary>>
  ELSE IF Len(base) > 0 /\ parse_semver(base).ok /\ parse_semver(base).major > 0
  THEN <<WordBoundary>> \o Lits(IntToStr(parse_semver(base).major - 1))
       \o <<Lit("."), DigitsPlus, Lit("."), DigitsPlus, WordBoundary>>
  ELSE IF Len(stale_overrides) > 0
  THEN <<WordBoundary, AnyOf({stale_overrides[i] : i \in 1..Len(stale_overrides)}), WordBoundary>>
  ELSE <<>>

\* the pattern of stale_version_rule, <<>> when there is none
StalePattern(base, stale_overrides) ==
  IF Len(stale_overrides) > 0
  THEN <<WordBoundary, AnyOf({stale_overrides[i] : i \in 1..Len(stale_overrides)}), WordBoundary>>
  ELSE IF Len(base) > 0
  THEN LET parsed == parse_semver(base)
       IN IF ~parsed.ok THEN <<>>
          ELSE IF parsed.minor > 0
          THEN <<WordBoundary>> \o Lits(IntToStr(parsed.major)) \o <<Lit(".")>>
               \o Lits(IntToStr(parsed.minor - 1)) \o <<Lit("."), DigitsPlus, WordBoundary>>
          ELSE IF parsed.major > 0
          THEN <<WordBoundary>> \o Lits(IntToStr(parsed.major - 1))
               \o <<Lit("."), DigitsPlus, Lit("."), DigitsPlus, WordBoundary>>
          ELSE <<>>
  ELSE <<>>

\* the rules stale_version_rule contributes: <<>> (None) or <<rule>>
stale_version_rule(base, staleEnv) ==
  LET pattern == StalePattern(base, EnvList(staleEnv))
  IN IF Len(pattern) = 0 THEN <<>>
     ELSE <<[id |-> "stale-version", pattern |-> pattern,
             message |-> StaleMessage(IF Len(base) > 0 THEN base ELSE <<"configured baseline">>)]>>

FixedRules ==
  << [id |-> "invalid-memrisrepository-arity",
      pattern |-> <<Lit("MemrisRepository"), Lit("<"), NotGtPlus, Lit(","), SpacesStar,
                    NotGtPlus, Lit(">")>>,
      message |-> <<"MemrisRepository must use one generic type parameter: MemrisRepository<T>", <<>>>>],
     [id |-> "invalid-index-annotation-syntax",
      pattern |-> <<Lit("@Index"), Lit("("), SpacesStar, Lit("IndexType"), Lit(".")>>,
      message |-> <<"invalid @Index syntax; use @Index(type = Index.IndexType.X)", <<>>>>] >>

\* RULES after the module-level insert(0, stale_rule)
BuildRules(base, staleEnv) == stale_version_rule(base, staleEnv) \o FixedRules

\* order of the path components under sorted()
PathTokenOrder == <<"/", "README.md", "a.md", "b.md", "docs">>

TokenRank(t) == CHOOSE i \in 1..Len(PathTokenOrder) : PathTokenOrder[i] = t

RECURSIVE PathLess(_, _)
PathLess(p, q) ==
  IF Len(q) = 0 THEN FALSE
  ELSE IF Len(p) = 0 THEN TRUE
  ELSE IF p[1] = q[1] THEN PathLess(Tail(p), Tail(q))
  ELSE TokenRank(p[1]) < TokenRank(q[1])

RECURSIVE SortedPaths(_)
SortedPaths(S) ==
  IF S = {} THEN <<>>
  ELSE LET least == CHOOSE p \in S : \A q \in S \ {p} : PathLess(p, q)
       IN <<least>> \o SortedPaths(S \ {least})

\* the markdown files under ROOT/docs
DocsFiles(t) == DOMAIN t \ {ReadmePath}

iter_targets(t) == <<ReadmePath>> \o SortedPaths(DocsFiles(t))

\* fnmatch.fnmatch(name, glob): "*" matches any run of characters, "/" included
RECURSIVE fnmatch(_, _)
fnmatch(name, glob) ==
  IF Len(glob) = 0 THEN Len(name) = 0
  ELSE IF glob[1] = "*"
  THEN \/ fnmatch(name, Tail(glob))
       \/ Len(name) > 0 /\ fnmatch(Tail(name), glob)
  ELSE Len(name) > 0 /\ name[1] = glob[1] /\ fnmatch(Tail(name), Tail(glob))

\* is_allowlisted matching the file name (path.name) instead of the root-relative path
is_allowlisted_by_name(path, globs) ==
  \E i \in 1..Len(globs) : fnmatch(<<path[Len(path)]>>, globs[i])

is_allowlisted(path, globs) == \E i \in 1..Len(globs) : fnmatch(path, globs[i])

\* the rule loop with a break after the first rule that matches the line
RECURSIVE LineFindingsBreak(_, _, _, _, _)
LineFindingsBreak(relative, line_number, line, rs, k) ==
  IF k > Len(rs) THEN <<>>
  ELSE IF Search(rs[k].pattern, line)
  THEN <<[file |-> relative, line |-> line_number, rule |-> rs[k].id, message |-> rs[k].message]>>
  ELSE LineFindingsBreak(relative, line_number, line, rs, k + 1)

\* for rule_id, pattern, message in RULES: if pattern.search(line): findings.append(...)
RECURSIVE LineFindings(_, _, _, _, _)
LineFindings(relative, line_number, line, rs, k) ==
  IF k > Len(rs) THEN <<>>
  ELSE (IF Search(rs[k].pattern, line)
        THEN <<[file |-> relative, line |-> line_number, rule |-> rs[k].id,
                message |-> rs[k].message]>>
        ELSE <<>>)
       \o LineFindings(relative, line_number, line, rs, k + 1)

\* for line_number, line in enumerate(lines, start=1): ...
RECURSIVE FileFindings(_, _, _, _)
FileFindings(relative, lines, rs, n) ==
  IF n > Len(lines) THEN <<>>
  ELSE LineFindings(relative, n, lines[n], rs, 1) \o FileFindings(relative, lines, rs, n + 1)

CountNotAllowlisted(ts, globs) == Cardinality({i \in 1..Len(ts) : ~is_allowlisted(ts[i], globs)})

\* ---- actions

\* module level: ALLOWLIST_GLOBS, stale_rule = stale_version_rule(), RULES
ModuleInit ==
  /\ pc = "import"
  /\ LET resolved == resolve_docs_baseline_version(env, pom)
     IN IF resolved.raised
        THEN /\ pc' = "aborted"
             /\ exitCode' = 1      \* SystemExit("message"): status 1
             /\ UNCHANGED rules
        ELSE /\ pc' = "main"
             /\ rules' = BuildRules(resolved.value, env.staleVersions)
             /\ UNCHANGED exitCode
  /\ allowGlobs' = EnvList(env.allowlist)
  /\ UNCHANGED <<env, pom, tree, probe, targets, cursor, findings, readLog, checked>>
  /\ UNCHANGED jmhVars

\* main: findings = [], targets = iter_targets()
EnterMain ==
  /\ pc = "main"
  /\ findings' = <<>>
  /\ targets' = iter_targets(tree)
  /\ cursor' = 1
  /\ pc' = "scan"
  /\ UNCHANGED <<env, pom, tree, probe, allowGlobs, rules, readLog, checked, exitCode>>
  /\ UNCHANGED jmhVars

\* main: one iteration of "for path in targets"
ScanFile ==
  /\ pc = "scan"
  /\ cursor <= Len(targets)
  /\ LET path == targets[cursor]
     IN IF is_allowlisted(path, allowGlobs)
        THEN /\ cursor' = cursor + 1
             /\ UNCHANGED <<pc, findings, readLog, exitCode>>
        ELSE IF ~tree[path].readable
        THEN \* path.read_text raises (FileNotFoundError, PermissionError, UnicodeDecodeError)
             /\ pc' = "aborted"
             /\ exitCode' = 1      \* uncaught exception: status 1
             /\ UNCHANGED <<cursor, findings, readLog>>
        ELSE /\ readLog' = readLog \cup {path}
             /\ findings' = findings \o FileFindings(path, tree[path].lines, rules, 1)
             /\ cursor' = cursor + 1
             /\ UNCHANGED <<pc, exitCode>>
  /\ UNCHANGED <<env, pom, tree, probe, allowGlobs, rules, targets, checked>>
  /\ UNCHANGED jmhVars

\* main: after the loop; sys.exit(main())
Report ==
  /\ pc = "scan"
  /\ cursor > Len(targets)
  /\ IF Len(findings) > 0
     THEN /\ exitCode' = 1
          /\ UNCHANGED checked
     ELSE /\ checked' = CountNotAllowlisted(targets, allowGlobs)
          /\ exitCode' = 0
  /\ pc' = "done"
  /\ UNCHANGED <<env, pom, tree, probe, allowGlobs, rules, targets, cursor, findings, readLog>>
  /\ UNCHANGED jmhVars

DriftNext == ModuleInit \/ EnterMain \/ ScanFile \/ Report

\* ---- inputs

NoProbe == [kind |-> "tree", major |-> 0, minor |-> 0, patch |-> 0, source |-> "",
            a |-> 0, b |-> 0, c |-> 0, pre |-> <<>>, post |-> <<>>, literals |-> {}]

PomAbsent == [state |-> "absent", version |-> <<>>]

CleanLine == <<"T">>

StaleTwiceLine == <<"1", ".", "1", ".", "5", " ", "1", ".", "1", ".", "7">>

BothFixedLine == <<"MemrisRepository", "<", "T", ",", " ", "T", ">", " ",
                   "@Index", "(", "IndexType", ".">>

DocLines == {CleanLine, StaleTwiceLine, BothFixedLine}

DocsPaths == {<<"docs", "/", "b.md">>, <<"docs", "/", "a.md">>}

Unreadable == [readable |-> FALSE, lines |-> <<>>]

Texts(n) == {[readable |-> TRUE, lines |-> l] : l \in [1..n -> DocLines]}

JmhIdle ==
  /\ jpc = "idle"
  /\ thresholds = <<0, 0>>
  /\ baseline = <<>>
  /\ current = {}
  /\ seen = {}
  /\ nEntries = 0
  /\ idx = 0
  /\ failures = <<>>
  /\ jexit = -1

DriftStart ==
  /\ pc = "import"
  /\ allowGlobs = <<>>
  /\ rules = <<>>
  /\ targets = <<>>
  /\ cursor = 0
  /\ findings = <<>>
  /\ readLog = {}
  /\ checked = -1
  /\ exitCode = -1

\* a docs tree (README.md, docs/a.md, docs/b.md) under the environment of a CI run
InitDrift ==
  /\ env \in [baselineVersion : {<<>>, <<"1", ".", "2">>},
              staleVersions : {<<>>},
              allowlist : {<<>>, <<"README.md">>, <<" ", "docs", "/", "*", ",">>, <<"*">>}]
  /\ pom \in {PomAbsent, [state |-> "version", version |-> <<"1", ".", "2", ".", "0">>]}
  /\ \E n1 \in 0..MaxTotalLines :
       \E n2 \in 0..(MaxTotalLines - n1) :
         \E n3 \in 0..(MaxTotalLines - n1 - n2) :
           \E r \in Texts(n1) \cup {Unreadable} :
             \E a \in Texts(n2) \cup {Unreadable} :
               \E b \in Texts(n3) \cup {Unreadable} :
                 tree = [p \in {ReadmePath} \cup DocsPaths |->
                           IF p = ReadmePath THEN r
                           ELSE IF p = <<"docs", "/", "a.md">> THEN a ELSE b]
  /\ probe = NoProbe
  /\ DriftStart
  /\ JmhIdle

SpecDrift == InitDrift /\ [][DriftNext]_vars

\* ---- inputs of the stale-version rule runs: README.md holds one line, docs/ is empty

OneLineTree(line) == [p \in {ReadmePath} |-> [readable |-> TRUE, lines |-> <<line>>]]

\* version components with two decimal digits
TwoDigitProbes == {10, 11}

VersionNumbers == (0..MaxNum) \cup TwoDigitProbes

PatchProbes == {0, 12}

PreContexts == {<<>>, <<" ">>, <<"(">>, <<"v">>}

PostContexts == {<<>>, <<" ">>, <<")">>, <<"x">>}

\* a baseline major.minor.3 (from DOCS_BASELINE_VERSION, written " major.minor.3-rc", or
\* from pom.xml) and a line holding the version literal a.b.c between pre and post
InitStale ==
  /\ \E major \in VersionNumbers, minor \in VersionNumbers, source \in {"env", "pom"} :
       \E a \in VersionNumbers, b \in VersionNumbers, c \in PatchProbes :
         \E pre \in PreContexts, post \in PostContexts :
           /\ probe = [kind |-> "stale", major |-> major, minor |-> minor, patch |-> 3,
                       source |-> source, a |-> a, b |-> b, c |-> c,
                       pre |-> pre, post |-> post, literals |-> {}]
           /\ env = [baselineVersion |->
                       IF source = "env"
                       THEN <<" ">> \o VersionString(major, minor, 3) \o <<"-", "rc">>
                       ELSE <<>>,
                     staleVersions |-> <<>>,
                     allowlist |-> <<>>]
           /\ pom = IF source = "pom"
                    THEN [state |-> "version", version |-> VersionString(major, minor, 3)]
                    ELSE PomAbsent
           /\ tree = OneLineTree(pre \o VersionString(a, b, c) \o post)
  /\ DriftStart
  /\ JmhIdle

SpecStale == InitStale /\ [][DriftNext]_vars

\* ---- inputs of the stale-literal override runs

LiteralAlphabet == {"0", "1", ".", " "}

\* DOCS_STALE_VERSIONS as written, with the non-empty literals it supplies
StaleOverrideChoices ==
  { [raw |-> <<"1", ".", "0">>,
     literals |-> {<<"1", ".", "0">>}],
    [raw |-> <<" ", "0", ".", "1", " ", ",", ",", "1", ".", "0", ".", "0">>,
     literals |-> {<<"0", ".", "1">>, <<"1", ".", "0", ".", "0">>}],
    [raw |-> <<".", "1", ",", " ">>,
     literals |-> {<<".", "1">>}] }

\* baseline from the override (1.1.0), from pom.xml (1.0.0) or absent
InitLiteral ==
  /\ \E choice \in StaleOverrideChoices :
       \E base \in {<<>>, <<"1", ".", "1", ".", "0">>} :
         /\ env = [baselineVersion |-> base, staleVersions |-> choice.raw, allowlist |-> <<>>]
         /\ probe = [NoProbe EXCEPT !.kind = "literal", !.literals = choice.literals,
                                    !.source = IF Len(base) > 0 THEN "env" ELSE "pom"]
  /\ pom \in {PomAbsent, [state |-> "version", version |-> <<"1", ".", "0", ".", "0">>]}
  /\ \E n \in 0..MaxLineLen : \E line \in [1..n -> LiteralAlphabet] : tree = OneLineTree(line)
  /\ DriftStart
  /\ JmhIdle

SpecLiteral == InitLiteral /\ [][DriftNext]_vars

(***************************************************************************)
(* check-jmh-regression.py                                                 *)
(***************************************************************************)
\* --flat-threshold default 0.10
FlatDefault == 10

\* --embedded-threshold default 0.15
EmbeddedDefault == 15

FlatMarker == ".flat_"

EmbeddedMarker == ".embedded_"

\* marker in benchmark
Contains(benchmark, marker) == \E i \in 1..Len(benchmark) : benchmark[i] = marker

Max(x, y) == IF x >= y THEN x ELSE y

\* threshold_for falling back to the smaller threshold
threshold_for_min(benchmark, flat_threshold, embedded_threshold) ==
  IF Contains(benchmark, FlatMarker) THEN flat_threshold
  ELSE IF Contains(benchmark, EmbeddedMarker) THEN embedded_threshold
  ELSE IF flat_threshold <= embedded_threshold THEN flat_threshold ELSE embedded_threshold

\* threshold_for falling back to the flat threshold
threshold_for_flat(benchmark, flat_threshold, embedded_threshold) ==
  IF Contains(benchmark, EmbeddedMarker) /\ ~Contains(benchmark, FlatMarker)
  THEN embedded_threshold
  ELSE flat_threshold

threshold_for(benchmark, flat_threshold, embedded_threshold) ==
  IF Contains(benchmark, FlatMarker) THEN flat_threshold
  ELSE IF Contains(benchmark, EmbeddedMarker) THEN embedded_threshold
  ELSE Max(flat_threshold, embedded_threshold)

\* a JSON number (a float), or an absent score
Num(v) == [kind |-> "num", value |-> v]

NaN == [kind |-> "nan", value |-> 0]

PosInf == [kind |-> "inf", value |-> 0]

NegInf == [kind |-> "-inf", value |-> 0]

NoScore == [kind |-> "none", value |-> 0]

\* math.isfinite(value)
IsFinite(score) == score.kind = "num"

\* current_score < baseline_score * (1.0 - allowed): every comparison with NaN is false
BelowMin(current_score, baseline_score, allowed) ==
  CASE current_score.kind = "num" -> 100 * current_score.value < baseline_score * (100 - allowed)
    [] current_score.kind = "-inf" -> TRUE
    [] OTHER -> FALSE

\* benchmark in current
InCurrent(cur, benchmark) == \E e \in cur : e[1] = benchmark

\* current[benchmark]
CurrentOf(cur, benchmark) == (CHOOSE e \in cur : e[1] = benchmark)[2]

\* load_current without the math.isfinite check
StoreEntryNoFiniteCheck(cur, entry) ==
  IF Len(entry.benchmark) = 0 \/ entry.score.kind = "none" THEN cur
  ELSE {e \in cur : e[1] # entry.benchmark} \cup {<<entry.benchmark, entry.score>>}

\* load_current: one iteration of "for entry in raw"; the entry's benchmark is <<>> for None
StoreEntry(cur, entry) ==
  IF Len(entry.benchmark) = 0 \/ entry.score.kind = "none" THEN cur
  ELSE IF ~IsFinite(entry.score) THEN cur
  ELSE {e \in cur : e[1] # entry.benchmark} \cup {<<entry.benchmark, entry.score>>}

Failure(kind, benchmark, baseline_score, current_score, regression, allowed) ==
  [kind |-> kind, benchmark |-> benchmark, baseline |-> baseline_score,
   current |-> current_score, regression |-> regression, allowed |-> allowed]

\* the loop body with the baseline guard written "< 0"
EvaluateOneStrictGuard(benchmark, baseline_score, cur, flat_threshold, embedded_threshold) ==
  IF ~InCurrent(cur, benchmark)
  THEN <<Failure("missing benchmark result", benchmark, 0, NoScore, 0, 0)>>
  ELSE LET current_score == CurrentOf(cur, benchmark)
       IN IF baseline_score < 0
          THEN <<Failure("invalid baseline score", benchmark, baseline_score, NoScore, 0, 0)>>
          ELSE IF BelowMin(current_score, baseline_score,
                           threshold_for(benchmark, flat_threshold, embedded_threshold))
          THEN <<Failure("regression", benchmark, baseline_score, current_score, 0,
                         threshold_for(benchmark, flat_threshold, embedded_threshold))>>
          ELSE <<>>

\* main: one iteration of "for benchmark, baseline_score in baseline.items()": the failures
\* it appends. The regression fraction is kept in hundredths of a percent.
EvaluateOne(benchmark, baseline_score, cur, flat_threshold, embedded_threshold) ==
  IF ~InCurrent(cur, benchmark)
  THEN <<Failure("missing benchmark result", benchmark, 0, NoScore, 0, 0)>>
  ELSE LET current_score == CurrentOf(cur, benchmark)
       IN IF baseline_score <= 0
          THEN <<Failure("invalid baseline score", benchmark, baseline_score, NoScore, 0, 0)>>
          ELSE LET allowed == threshold_for(benchmark, flat_threshold, embedded_threshold)
               IN IF BelowMin(current_score, baseline_score, allowed)
                  THEN <<Failure("regression", benchmark, baseline_score, current_score,
                                 IF current_score.kind = "num"
                                 THEN ((baseline_score - current_score.value) * 10000)
                                      \div baseline_score
                                 ELSE 0,
                                 allowed)>>
                  ELSE <<>>

\* ---- inputs: well-typed JSON (every score a number or absent, every entry an object)

NameA == <<"a">>

NameFlat == <<"B", ".flat_", "x">>

NameEmbedded == <<"B", ".embedded_", "x">>

NameBoth == <<"B", ".embedded_", "x", ".flat_", "y">>

\* benchmarks of the baseline and the current-results files
GateNames == {NameA, NameFlat, NameEmbedded}

BaselineScores == {-5, 0, 100}

CurrentScores == {84, 85, 91}

NonFinite == {NaN, PosInf, NegInf}

ThresholdChoices == {<<FlatDefault, EmbeddedDefault>>, <<15, 10>>}

\* the baseline objects: at most MaxBench keys, each benchmark once
BaselineObjects ==
  {items \in UNION {[1..n -> GateNames \X BaselineScores] : n \in 0..MaxBench} :
     \A i, j \in 1..Len(items) : i # j => items[i][1] # items[j][1]}

CurrentEntries ==
  [benchmark : GateNames \cup {<<>>}, score : {Num(v) : v \in CurrentScores} \cup NonFinite \cup {NoScore}]

\* ---- actions

\* main: parser.parse_args(); a missing required argument ends the process with status 2
ParseArgs ==
  /\ jpc = "args"
  /\ \E given \in BOOLEAN :
       IF given
       THEN /\ \E t \in ThresholdChoices : thresholds' = t
            /\ jpc' = "baseline"
            /\ UNCHANGED jexit
       ELSE /\ jpc' = "aborted"
            /\ jexit' = 2
            /\ UNCHANGED thresholds
  /\ UNCHANGED <<baseline, current, seen, nEntries, idx, failures>>
  /\ UNCHANGED driftVars

\* main: baseline = load_baseline(Path(args.baseline))
LoadBaseline ==
  /\ jpc = "baseline"
  /\ \E file \in {"missing", "not an object", "object"} :
       IF file = "object"
       THEN /\ \E items \in BaselineObjects : baseline' = items
            /\ jpc' = "current"
            /\ UNCHANGED jexit
       ELSE \* FileNotFoundError from path.open, ValueError from the isinstance check
            /\ jpc' = "aborted"
            /\ jexit' = 1      \* uncaught exception: status 1
            /\ UNCHANGED baseline
  /\ UNCHANGED <<thresholds, current, seen, nEntries, idx, failures>>
  /\ UNCHANGED driftVars

\* load_current: open and json.load, the isinstance check, current = {}
OpenCurrent ==
  /\ jpc = "current"
  /\ \E file \in {"missing", "not an array", "array"} :
       IF file = "array"
       THEN /\ jpc' = "entries"
            /\ UNCHANGED jexit
       ELSE /\ jpc' = "aborted"
            /\ jexit' = 1      \* uncaught exception: status 1
  /\ UNCHANGED <<thresholds, baseline, current, seen, nEntries, idx, failures>>
  /\ UNCHANGED driftVars

\* load_current: one iteration of "for entry in raw"
LoadEntry ==
  /\ jpc = "entries"
  /\ nEntries < MaxEntries
  /\ \E entry \in CurrentEntries :
       /\ current' = StoreEntry(current, entry)
       /\ seen' = IF Len(entry.benchmark) > 0
                  THEN seen \cup {<<entry.benchmark, entry.score.kind>>}
                  ELSE seen
  /\ nEntries' = nEntries + 1
  /\ UNCHANGED <<jpc, thresholds, baseline, idx, failures, jexit>>
  /\ UNCHANGED driftVars

\* load_current: return current; main: failures = []
EndCurrent ==
  /\ jpc = "entries"
  /\ jpc' = "evaluate"
  /\ idx' = 1
  /\ failures' = <<>>
  /\ UNCHANGED <<thresholds, baseline, current, seen, nEntries, jexit>>
  /\ UNCHANGED driftVars

\* main: one iteration of "for benchmark, baseline_score in baseline.items()"
EvaluateBenchmark ==
  /\ jpc = "evaluate"
  /\ idx <= Len(baseline)
  /\ failures' = failures \o EvaluateOne(baseline[idx][1], baseline[idx][2], current,
                                         thresholds[1], thresholds[2])
  /\ idx' = idx + 1
  /\ UNCHANGED <<jpc, thresholds, baseline, current, seen, nEntries, jexit>>
  /\ UNCHANGED driftVars

\* main: after the loop; sys.exit(main())
JmhReport ==
  /\ jpc = "evaluate"
  /\ idx > Len(baseline)
  /\ jexit' = IF Len(failures) > 0 THEN 1 ELSE 0
  /\ jpc' = "done"
  /\ UNCHANGED <<thresholds, baseline, current, seen, nEntries, idx, failures>>
  /\ UNCHANGED driftVars

JmhNext == ParseArgs \/ LoadBaseline \/ OpenCurrent \/ LoadEntry \/ EndCurrent
           \/ EvaluateBenchmark \/ JmhReport

DriftIdle ==
  /\ env = [baselineVersion |-> <<>>, staleVersions |-> <<>>, allowlist |-> <<>>]
  /\ pom = PomAbsent
  /\ tree = << >>
  /\ probe = NoProbe
  /\ pc = "idle"
  /\ allowGlobs = <<>>
  /\ rules = <<>>
  /\ targets = <<>>
  /\ cursor = 0
  /\ findings = <<>>
  /\ readLog = {}
  /\ checked = -1
  /\ exitCode = -1

InitJmh ==
  /\ jpc = "args"
  /\ thresholds = <<0, 0>>
  /\ baseline = <<>>
  /\ current = {}
  /\ seen = {}
  /\ nEntries = 0
  /\ idx = 0
  /\ failures = <<>>
  /\ jexit = -1
  /\ DriftIdle

SpecJmh == InitJmh /\ [][JmhNext]_vars

(***************************************************************************)
(* Properties                                                              *)
(***************************************************************************)
DriftAborted == pc = "aborted"

JmhAborted == jpc = "aborted"

FailuresOf(benchmark) == {i \in 1..Len(failures) : failures[i].benchmark = benchmark}

HasFailure(benchmark, kind) ==
  \E i \in 1..Len(failures) : failures[i].benchmark = benchmark /\ failures[i].kind = kind

\* the baseline items the loop of main has been through
Evaluated == 1..(idx - 1)

HasFiniteScore(benchmark) == <<benchmark, "num">> \in seen

HasNonFiniteScore(benchmark) == \E k \in {"nan", "inf", "-inf"} : <<benchmark, k>> \in seen

Unrecognized(benchmark) == ~Contains(benchmark, FlatMarker) /\ ~Contains(benchmark, EmbeddedMarker)

\* C1: for both gates the exit status is 0 exactly when the run completes without
\* findings, 1 exactly when it completes with at least one finding, and a code above 1
\* whenever the run aborts on a fatal configuration or input error.
C1_ExitStatusThreeWay ==
  /\ exitCode = 0 <=> (pc = "done" /\ Len(findings) = 0)
  /\ exitCode = 1 <=> (pc = "done" /\ Len(findings) > 0)
  /\ DriftAborted => exitCode > 1
  /\ jexit = 0 <=> (jpc = "done" /\ Len(failures) = 0)
  /\ jexit = 1 <=> (jpc = "done" /\ Len(failures) > 0)
  /\ JmhAborted => jexit > 1

AllNames == GateNames \cup {NameBoth}

WouldFlag(current_value, baseline_score, allowed) ==
  100 * current_value < baseline_score * (100 - allowed)

C4_InvalidBaselineAnyScore ==
  jpc = "done" =>
    \A i \in 1..Len(baseline) :
      LET n == baseline[i][1]
      IN (baseline[i][2] <= 0 /\ (HasFiniteScore(n) \/ HasNonFiniteScore(n))) =>
           /\ \A k \in FailuresOf(n) : failures[k].kind = "invalid baseline score"
           /\ Cardinality(FailuresOf(n)) = 1
           /\ jexit = 1

\* C4 amended: a baseline benchmark with score <= 0 for which the current-results file
\* holds a finite score gets exactly one finding, "invalid baseline score", without a
\* regression ratio, and the gate exits 1. (Without a finite score for it the finding is
\* "missing benchmark result".)
C4_InvalidBaselineFiniteScore ==
  /\ \A i \in Evaluated :
       LET n == baseline[i][1]
       IN (baseline[i][2] <= 0 /\ HasFiniteScore(n)) =>
            /\ Cardinality(FailuresOf(n)) = 1
            /\ \A k \in FailuresOf(n) :
                 /\ failures[k].kind = "invalid baseline score"
                 /\ failures[k].regression = 0
                 /\ failures[k].current = NoScore
            /\ jpc = "done" => jexit = 1
  /\ \A i \in Evaluated :
       LET n == baseline[i][1]
       IN (baseline[i][2] <= 0 /\ ~HasFiniteScore(n)) => HasFailure(n, "missing benchmark result")

\* C4: baseline {"a": 0}, current 91: one finding, "invalid baseline score", exit 1
C4_Witness ==
  /\ jpc = "done"
  /\ jexit = 1
  /\ baseline = << <<NameA, 0>> >>
  /\ current = {<<NameA, Num(91)>>}
  /\ Len(failures) = 1
  /\ failures[1].kind = "invalid baseline score"

\* C5: a baseline benchmark without a usable current score (no entry, an entry without
\* a score, an entry with a non-finite score) gets exactly one finding, "missing
\* benchmark result", and the gate exits 1; a non-finite score is never stored in the
\* current-results mapping and never compared against a threshold.
C5_MissingResults ==
  /\ \A e \in current : IsFinite(e[2])
  /\ \A n \in GateNames : InCurrent(current, n) <=> HasFiniteScore(n)
  /\ \A k \in 1..Len(failures) :
       failures[k].kind = "regression" => IsFinite(failures[k].current)
  /\ \A i \in Evaluated :
       LET n == baseline[i][1]
       IN ~HasFiniteScore(n) =>
            /\ Cardinality(FailuresOf(n)) = 1
            /\ HasFailure(n, "missing benchmark result")
            /\ jpc = "done" => jexit = 1

\* C5: "a" has an entry with NaN and one without a score, the flat benchmark has no
\* entry at all: both are reported missing
C5_Witness ==
  /\ jpc = "done"
  /\ jexit = 1
  /\ \E i \in 1..Len(baseline) :
       /\ baseline[i] = <<NameA, 100>>
       /\ <<NameA, "nan">> \in seen
       /\ <<NameA, "none">> \in seen
       /\ HasFailure(NameA, "missing benchmark result")
  /\ \E j \in 1..Len(baseline) :
       /\ baseline[j][1] = NameFlat
       /\ seen \cap ({NameFlat} \X {"num", "none", "nan", "inf", "-inf"}) = {}
       /\ HasFailure(NameFlat, "missing benchmark result")

\* ---- drift gate

\* the line of README.md in the stale-rule runs
ProbeLine == tree[ReadmePath].lines[1]

HasStaleRule == Len(rules) > 0 /\ rules[1].id = "stale-version"

RuleIds == {rules[i].id : i \in 1..Len(rules)}

StaleFlagged ==
  \E i \in 1..Len(findings) :
    /\ findings[i].rule = "stale-version"
    /\ findings[i].file = ReadmePath
    /\ findings[i].line = 1

\* the literal a.b.c stands alone: no word character and no "." touches it
Standalone ==
  /\ probe.pre = <<>> \/ probe.pre[Len(probe.pre)] \notin (WordEndTokens \cup {"."})
  /\ probe.post = <<>> \/ probe.post[1] \notin (WordStartTokens \cup {"."})

PredecessorLiteral ==
  \/ probe.minor > 0 /\ probe.a = probe.major /\ probe.b = probe.minor - 1
  \/ probe.minor = 0 /\ probe.major > 0 /\ probe.a = probe.major - 1

RulesBuilt == pc \in {"main", "scan", "done"}

\* C6: without DOCS_STALE_VERSIONS, for a baseline major.minor.patch the stale-version
\* rule flags a standalone literal a.b.c iff (minor > 0, a = major, b = minor - 1) or
\* (minor = 0, major > 0, a = major - 1); it never flags a literal of the baseline's own
\* minor line; for a baseline 0.0.x there is no stale-version rule and exactly the two
\* fixed rules are active.
C6_DerivedStaleRule ==
  /\ RulesBuilt =>
       /\ HasStaleRule <=> ~(probe.major = 0 /\ probe.minor = 0)
       /\ (probe.major = 0 /\ probe.minor = 0) =>
            /\ Len(rules) = 2
            /\ RuleIds = {"invalid-memrisrepository-arity", "invalid-index-annotation-syntax"}
       /\ HasStaleRule => Len(rules) = 3
  /\ (pc = "done" /\ Standalone) => (StaleFlagged <=> PredecessorLiteral)
  /\ (pc = "done" /\ probe.a = probe.major /\ probe.b = probe.minor) => ~StaleFlagged

\* C6: baseline 1.11.3 read from an override with a suffix: the literal 1.10.12 is flagged
C6_Witness ==
  /\ pc = "done"
  /\ probe.source = "env"
  /\ probe.major = 1 /\ probe.minor = 11
  /\ probe.a = 1 /\ probe.b = 10 /\ probe.c = 12
  /\ probe.pre = <<"(">> /\ probe.post = <<")">>
  /\ StaleFlagged
  /\ exitCode = 1

TargetIndex(path) == CHOOSE i \in 1..Len(targets) : targets[i] = path

RuleIndex(id) == CHOOSE i \in 1..Len(rules) : rules[i].id = id

FindingKey(f) == <<TargetIndex(f.file), f.line, RuleIndex(f.rule)>>

KeyLess(k1, k2) ==
  \/ k1[1] < k2[1]
  \/ k1[1] = k2[1] /\ k1[2] < k2[2]
  \/ k1[1] = k2[1] /\ k1[2] = k2[2] /\ k1[3] < k2[3]

\* the order of the targets: README.md, then docs/a.md, then docs/b.md
ExpectedTargets == <<ReadmePath, <<"docs", "/", "a.md">>, <<"docs", "/", "b.md">>>>

\* C7: the findings hold exactly one finding for each (file, line number, rule) whose
\* pattern matches the line of a scanned file, and nothing else, in the order of
\* (position of the file among the targets, line number, position of the rule).
C7_OneFindingPerMatchInOrder ==
  /\ pc \in {"scan", "done"} => targets = ExpectedTargets
  /\ \A p \in readLog : \A n \in 1..Len(tree[p].lines) : \A r \in 1..Len(rules) :
       Cardinality({i \in 1..Len(findings) :
                      /\ findings[i].file = p
                      /\ findings[i].line = n
                      /\ findings[i].rule = rules[r].id})
         = IF Search(rules[r].pattern, tree[p].lines[n]) THEN 1 ELSE 0
  /\ \A i \in 1..Len(findings) :
       /\ findings[i].file \in readLog
       /\ findings[i].line \in 1..Len(tree[findings[i].file].lines)
       /\ findings[i].rule \in RuleIds
  /\ \A i, j \in 1..Len(findings) :
       i < j => KeyLess(FindingKey(findings[i]), FindingKey(findings[j]))
  /\ pc = "done" => readLog = {p \in DOMAIN tree : \A g \in 1..Len(allowGlobs) : ~fnmatch(p, allowGlobs[g])}

\* C7: a line holding the stale pattern twice gives one finding; a line two rules match
\* gives two, after the findings of the earlier file
C7_Witness ==
  /\ pc = "done"
  /\ tree[<<"docs", "/", "a.md">>].lines = <<StaleTwiceLine>>
  /\ tree[<<"docs", "/", "b.md">>].lines = <<CleanLine, BothFixedLine>>
  /\ Len(findings) = 3
  /\ findings[1].rule = "stale-version" /\ findings[1].file = <<"docs", "/", "a.md">>
  /\ findings[2].rule = "invalid-memrisrepository-arity" /\ findings[2].line = 2
  /\ findings[3].rule = "invalid-index-annotation-syntax" /\ findings[3].line = 2

\* the globs DOCS_DRIFT_ALLOWLIST of the tree runs configures
ConfiguredGlobs ==
  IF env.allowlist = <<" ", "docs", "/", "*", ",">> THEN {<<"docs", "/", "*">>}
  ELSE IF env.allowlist = <<>> THEN {}
  ELSE {env.allowlist}

MatchesAllowlist(path) == \E g \in ConfiguredGlobs : fnmatch(path, g)

TriggersFixedRule(content) ==
  \E n \in 1..Len(content.lines) : content.lines[n] = BothFixedLine

\* C8: a file whose path matches a DOCS_DRIFT_ALLOWLIST glob is never read, contributes
\* no finding and is not counted in "files checked", which is the number of target
\* files that are not allow-listed; when every file is allow-listed the gate passes
\* with exit 0 whatever the files hold.
C8_Allowlist ==
  /\ \A p \in DOMAIN tree :
       MatchesAllowlist(p) =>
         /\ p \notin readLog
         /\ \A i \in 1..Len(findings) : findings[i].file # p
  /\ (pc = "done" /\ exitCode = 0) =>
       checked = Cardinality({p \in DOMAIN tree : ~MatchesAllowlist(p)})
  /\ (pc = "done" /\ \A p \in DOMAIN tree : MatchesAllowlist(p)) =>
       /\ exitCode = 0
       /\ checked = 0
  /\ pc = "scan" =>
       \A i \in 1..(cursor - 1) : targets[i] \in readLog \/ MatchesAllowlist(targets[i])

\* C8: docs/* is allow-listed, docs/a.md holds a line two rules match and docs/b.md
\* cannot be read: the gate passes with one file checked
C8_Witness ==
  /\ pc = "done"
  /\ ConfiguredGlobs = {<<"docs", "/", "*">>}
  /\ TriggersFixedRule(tree[<<"docs", "/", "a.md">>])
  /\ ~tree[<<"docs", "/", "b.md">>].readable
  /\ readLog = {ReadmePath}
  /\ exitCode = 0
  /\ checked = 1

\* C9: a run either evaluates all its targets and reports a verdict, or aborts before
\* any target has been evaluated.
C9_NoPartialEvaluation ==
  /\ DriftAborted => \A p \in readLog : Len(tree[p].lines) = 0
  /\ pc = "done" => \A p \in DOMAIN tree : p \in readLog \/ is_allowlisted(p, allowGlobs)
  /\ JmhAborted => idx = 0 /\ failures = <<>>
  /\ jpc = "done" => idx = Len(baseline) + 1

LiteralOccurs(line) ==
  \E lit \in probe.literals :
    \E p \in 0..(Len(line) - Len(lit)) :
      /\ \A k \in 1..Len(lit) : line[p + k] = lit[k]
      /\ IsBoundary(line, p)
      /\ IsBoundary(line, p + Len(lit))

\* C10: when DOCS_STALE_VERSIONS supplies a non-empty literal, the stale-version rule
\* flags a line iff the line holds one of the literals verbatim between word boundaries,
\* whether the baseline comes from the override, from pom.xml or is absent; the
\* baseline-derived pattern is not used.
C10_LiteralOverride ==
  /\ RulesBuilt => HasStaleRule /\ Len(rules) = 3
  /\ pc = "done" => (StaleFlagged <=> LiteralOccurs(ProbeLine))
  /\ pc = "done" => (exitCode = 1 <=> LiteralOccurs(ProbeLine))

\* C10: baseline 1.0.0 from pom.xml, override "1.0": the predecessor literal 0.0.0 passes
C10_Witness ==
  /\ pc = "done"
  /\ probe.literals = {<<"1", ".", "0">>}
  /\ env.baselineVersion = <<>>
  /\ pom.state = "version"
  /\ ProbeLine = <<"0", ".", "0", ".", "0">>
  /\ HasStaleRule
  /\ ~StaleFlagged
  /\ exitCode = 0

====
